---- MODULE Spec2Model ----
(***************************************************************************)
(* Model of the Daytona sandbox session of agent/sandbox.py:               *)
(* create_daytona_sandbox (client creation, create, readiness polling,     *)
(* seeding through upload_skills, hand-off of the DaytonaBackend, deletion *)
(* at scope exit) and DaytonaBackend.execute, upload_files, download_files *)
(* called by the threads that hold the backend.                            *)
(* Spec is the whole session; BridgeSpec and FilesSpec start at the yield  *)
(* of the backend and exercise the execute bridge with concurrent callers  *)
(* and the batch file transfers.                                           *)
(* Every await of the coroutine is a suspension point, hence a separate    *)
(* step; asyncio cancellation is delivered at suspension points only.      *)
(***************************************************************************)
EXTENDS Integers, Sequences, FiniteSets, TLC

\* range(90) of the polling loop
MaxAttempts == 90

\* how many times the session task may be cancelled in one behaviour
MaxCancels == 2

\* how many execute calls a thread makes in one behaviour
MaxExec == 2

\* threads, other than the event-loop thread, that hold the backend
Threads == {"t1", "t2"}

\* the threads that call execute in the specification of the whole session
SessionThreads == {"t1"}

\* the thread that runs the owning event loop, as a caller of the backend
LoopThread == "loop"

\* everyone who can call execute on the backend
Callers == Threads \cup {LoopThread}

\* event loops of the process; the session runs on one of them
Loops == {"L1", "L2"}

\* command strings passed to execute
Commands == {"echo hi"}

\* combined outputs and exit codes the provider may answer with
Outputs == {"", "hi\n"}
ExitCodes == {0, 1}

\* exceptions of the provider's exec call: network error, malformed response
TransportErrors == {"ConnectionError", "MalformedResponse"}

\* what process.exec gives back: an object with result and exit_code, or an exception
NoReply == [kind |-> "none", result |-> "", exit_code |-> 0, error |-> "none"]
Replies ==
    [kind : {"result"}, result : Outputs, exit_code : ExitCodes, error : {"none"}]
    \cup [kind : {"raise"}, result : {""}, exit_code : {0}, error : TransportErrors]

\* what execute gives back to its caller: an ExecuteResponse, or an exception
NoRet == [kind |-> "none", output |-> "", exit_code |-> 0, truncated |-> FALSE, error |-> "none"]

\* Settings.max_skill_file_size
MaxSkillFileSize == 10 * 1024 * 1024

\* files that may lie under the skills directory, one at the limit and one above it
SkillFiles == {[name |-> "SKILL.md", size |-> MaxSkillFileSize],
               [name |-> "big.bin", size |-> MaxSkillFileSize + 1]}

\* longest batch of a file transfer
MaxLen == 2

\* remote paths of a file transfer; the empty path is a malformed destination
Paths == {"/home/daytona/a.txt", "/home/daytona/b.txt", ""}
Malformed(path) == path = ""

\* payloads of an upload
Contents == {"x", "y"}

\* the batches of length at most MaxLen over a set
Batches(S) == UNION {[1..n -> S] : n \in 0..MaxLen}

\* no file transfer has been called yet
NoXfer == [op |-> "none", arg |-> <<>>, kind |-> "none", value |-> <<>>,
           error |-> "none", sent |-> <<>>]

\* outcomes of one readiness poll: sandbox.process.exec("echo ready", timeout=5)
PollKinds == {"exit0", "nonzero", "timeout", "connerr"}

\* outcomes of a remote or thread-offloaded call: it returns or it raises an Exception
Results == {"ok", "raise"}

\* provider calls that are counted
CallKinds == {"create", "poll", "seed", "delete", "exec"}

\* positions of the coroutine at which it is suspended in an await
Suspended == {"client", "create", "polling", "collect", "uploading", "sleep", "tdelete", "ready", "xdelete"}

VARIABLES
    pc,           \* position of the create_daytona_sandbox coroutine
    attempt,      \* iterations of the polling loop started so far
    lastPoll,     \* outcome of the last completed poll attempt, "none" before
    pollOk,       \* some poll attempt completed with exit code 0
    calls,        \* provider calls issued so far, per kind
    yielded,      \* the backend has been yielded to the caller
    bodyOutcome,  \* how the caller's body left the scope: none, return, raise, cancel
    deleteResult, \* how the delete call ended: none, ok, raise, cancelled
    outcome,      \* what the user of the scope observes at the end
    cancels,      \* cancellations delivered so far
    cancelledLive,\* a cancellation was delivered while the sandbox existed
    printed,      \* lines printed by the last step of the coroutine
    th,           \* position of each thread inside DaytonaBackend.execute
    execs,        \* execute calls started by each thread
    usedAfterDelete, \* a provider call was issued on the handle after delete was issued
    runLoop,      \* the event loop that runs create_daytona_sandbox
    backendLoop,  \* DaytonaBackend._loop, "none" before the backend is built
    cmd,          \* command of the execute call each thread is in
    execLoop,     \* loop on which the last provider exec of each thread was issued
    reply,        \* what the provider answered to the last exec of each thread
    ret,          \* what execute gave back to each thread
    xfer,         \* the last upload_files or download_files call and what it gave back
    skillsDir,    \* the files get_files found under the skills directory
    seedFiles,    \* the FileUpload requests handed to the seed upload
    drivers,      \* the schedulers and threads that have driven a call on the connection
    loop          \* the owning event loop: running, stopped or closed

vars == <<pc, attempt, lastPoll, pollOk, calls, drivers, yielded, bodyOutcome, deleteResult,
          outcome, cancels, cancelledLive, printed, th, execs, usedAfterDelete,
          runLoop, loop, backendLoop, cmd, execLoop, reply, ret, xfer, skillsDir, seedFiles>>

\* the seeding data, which only upload_skills changes
seed == <<skillsDir, seedFiles>>

\* the state of the backend's callers, which no step of the session coroutine changes
bridge == <<cmd, execLoop, reply, ret, xfer>>

session == <<pc, attempt, lastPoll, pollOk, yielded, bodyOutcome, deleteResult,
             outcome, cancels, cancelledLive, printed, runLoop, loop, backendLoop, seed>>

Bump(k) == [calls EXCEPT ![k] = @ + 1]

\* a provider call of kind k is awaited on the connection by the scheduler who
Issue(k, who) ==
    /\ calls' = Bump(k)
    /\ drivers' = drivers \cup {who}

\* the sandbox handle exists from the return of daytona.create() on
SandboxExists == pc \in {"loop", "polling", "collect", "uploading", "sleep", "tdelete", "ready", "xdelete"}

Init ==
    /\ pc = "start"
    /\ attempt = 0
    /\ lastPoll = "none"
    /\ pollOk = FALSE
    /\ calls = [k \in CallKinds |-> 0]
    /\ yielded = FALSE
    /\ bodyOutcome = "none"
    /\ deleteResult = "none"
    /\ outcome = "none"
    /\ cancels = 0
    /\ cancelledLive = FALSE
    /\ printed = <<>>
    /\ th = [t \in Callers |-> "idle"]
    /\ execs = [t \in Callers |-> 0]
    /\ usedAfterDelete = FALSE
    /\ runLoop \in Loops
    /\ backendLoop = "none"
    /\ cmd = [t \in Callers |-> "none"]
    /\ execLoop = [t \in Callers |-> "none"]
    /\ reply = [t \in Callers |-> NoReply]
    /\ ret = [t \in Callers |-> NoRet]
    /\ xfer = NoXfer
    /\ skillsDir = {}
    /\ seedFiles = {}
    /\ drivers = {}
    /\ loop = "running"

\* print("Starting Daytona sandbox..."), then await asyncio.to_thread(AsyncDaytona(...))
Start ==
    /\ pc = "start"
    /\ pc' = "client"
    /\ printed' = <<"starting">>
    /\ UNCHANGED <<attempt, lastPoll, pollOk, calls, drivers, yielded, bodyOutcome, deleteResult,
                   outcome, cancels, cancelledLive, th, execs, usedAfterDelete,
                   runLoop, loop, backendLoop, bridge, seed>>

\* the client is built (or its construction raises), then daytona.create() is issued
ClientReturns(r) ==
    /\ pc = "client"
    /\ printed' = <<>>
    /\ IF r = "ok"
       THEN /\ pc' = "create"
            /\ Issue("create", runLoop)
            /\ outcome' = outcome
       ELSE /\ pc' = "done"
            /\ outcome' = "clienterr"
            /\ UNCHANGED <<calls, drivers>>
    /\ UNCHANGED <<attempt, lastPoll, pollOk, yielded, bodyOutcome, deleteResult,
                   cancels, cancelledLive, th, execs, usedAfterDelete,
                   runLoop, loop, backendLoop, bridge, seed>>

\* mutant: a failed create is issued again
CreateReturns_Retries(r) ==
    /\ pc = "create"
    /\ printed' = <<>>
    /\ outcome' = outcome
    /\ IF r = "ok"
       THEN /\ pc' = "loop"
            /\ UNCHANGED <<calls, drivers>>
       ELSE /\ pc' = "create"
            /\ Issue("create", runLoop)
    /\ UNCHANGED <<attempt, lastPoll, pollOk, yielded, bodyOutcome, deleteResult,
                   cancels, cancelledLive, th, execs, usedAfterDelete,
                   runLoop, loop, backendLoop, bridge, seed>>

\* mutant: a failed create is cleaned up like a provisioning timeout
CreateReturns_CleansUp(r) ==
    /\ pc = "create"
    /\ printed' = <<>>
    /\ IF r = "ok"
       THEN /\ pc' = "loop"
            /\ outcome' = outcome
            /\ UNCHANGED <<calls, drivers>>
       ELSE /\ pc' = "done"
            /\ outcome' = "createerr"
            /\ Issue("delete", runLoop)
    /\ UNCHANGED <<attempt, lastPoll, pollOk, yielded, bodyOutcome, deleteResult,
                   cancels, cancelledLive, th, execs, usedAfterDelete,
                   runLoop, loop, backendLoop, bridge, seed>>

\* sandbox = await daytona.create(): the handle exists, or the error propagates
CreateReturns(r) ==
    /\ pc = "create"
    /\ printed' = <<>>
    /\ IF r = "ok"
       THEN /\ pc' = "loop"
            /\ outcome' = outcome
       ELSE /\ pc' = "done"
            /\ outcome' = "createerr"
    /\ UNCHANGED <<attempt, lastPoll, pollOk, calls, drivers, yielded, bodyOutcome, deleteResult,
                   cancels, cancelledLive, th, execs, usedAfterDelete,
                   runLoop, loop, backendLoop, bridge, seed>>

\* mutant: the loop gives up one attempt early
LoopNext_OffByOne ==
    /\ pc = "loop"
    /\ printed' = <<>>
    /\ IF attempt < MaxAttempts - 1
       THEN /\ attempt' = attempt + 1
            /\ Issue("poll", runLoop)
            /\ pc' = "polling"
       ELSE /\ attempt' = attempt
            /\ Issue("delete", runLoop)
            /\ pc' = "tdelete"
    /\ UNCHANGED <<lastPoll, pollOk, yielded, bodyOutcome, deleteResult, outcome,
                   cancels, cancelledLive, th, execs, usedAfterDelete,
                   runLoop, loop, backendLoop, bridge, seed>>

\* for _ in range(90): issue the next poll; else: issue the clean-up delete
LoopNext ==
    /\ pc = "loop"
    /\ printed' = <<>>
    /\ IF attempt < MaxAttempts
       THEN /\ attempt' = attempt + 1
            /\ Issue("poll", runLoop)
            /\ pc' = "polling"
       ELSE /\ attempt' = attempt
            /\ Issue("delete", runLoop)
            /\ pc' = "tdelete"
    /\ UNCHANGED <<lastPoll, pollOk, yielded, bodyOutcome, deleteResult, outcome,
                   cancels, cancelledLive, th, execs, usedAfterDelete,
                   runLoop, loop, backendLoop, bridge, seed>>

\* mutant: an exception of the poll is not caught and ends the session
PollReturns_FatalOnError(k) ==
    /\ pc = "polling"
    /\ lastPoll' = k
    /\ pollOk' = (pollOk \/ k = "exit0")
    /\ pc' = CASE k = "exit0" -> "collect"
               [] k = "nonzero" -> "sleep"
               [] OTHER -> "done"
    /\ outcome' = IF k \in {"timeout", "connerr"} THEN "pollerr" ELSE outcome
    /\ printed' = <<>>
    /\ UNCHANGED <<attempt, calls, drivers, yielded, bodyOutcome, deleteResult,
                   cancels, cancelledLive, th, execs, usedAfterDelete,
                   runLoop, loop, backendLoop, bridge, seed>>

\* mutant: the exit code of the poll is not looked at
PollReturns_NoExitCheck(k) ==
    /\ pc = "polling"
    /\ lastPoll' = k
    /\ pollOk' = (pollOk \/ k = "exit0")
    /\ pc' = IF k \in {"exit0", "nonzero"} THEN "collect" ELSE "sleep"
    /\ printed' = IF k \in {"timeout", "connerr"} THEN <<"retrying">> ELSE <<>>
    /\ UNCHANGED <<attempt, calls, drivers, yielded, bodyOutcome, deleteResult, outcome,
                   cancels, cancelledLive, th, execs, usedAfterDelete,
                   runLoop, loop, backendLoop, bridge, seed>>

\* the poll returns: exit code 0 enters upload_skills, an Exception is printed,
\* a non-zero exit code falls through to the sleep
PollReturns(k) ==
    /\ pc = "polling"
    /\ lastPoll' = k
    /\ pollOk' = (pollOk \/ k = "exit0")
    /\ pc' = IF k = "exit0" THEN "collect" ELSE "sleep"
    /\ printed' = IF k \in {"timeout", "connerr"} THEN <<"retrying">> ELSE <<>>
    /\ UNCHANGED <<attempt, calls, drivers, yielded, bodyOutcome, deleteResult, outcome,
                   cancels, cancelledLive, th, execs, usedAfterDelete,
                   runLoop, loop, backendLoop, bridge, seed>>

\* loop = get_running_loop(); backend = DaytonaBackend(sandbox, loop); yield backend
HandOff(lines) ==
    /\ pc' = "ready"
    /\ yielded' = TRUE
    /\ backendLoop' = runLoop
    /\ printed' = lines \o <<"ready">>

\* get_files: one FileUpload per file under the skills directory, whatever its size
get_files(dir) ==
    {[destination |-> <<"/home/daytona/skills", f.name>>, size |-> f.size] : f \in dir}

\* upload_skills: get_files returns in its thread and the batch upload is issued;
\* an Exception of get_files leaves upload_skills and is caught by the loop's except
CollectReturns(r) ==
    /\ pc = "collect"
    /\ IF r = "ok"
       THEN /\ pc' = "uploading"
            /\ Issue("seed", runLoop)
            /\ printed' = <<>>
            /\ \E dir \in SUBSET SkillFiles :
                  /\ skillsDir' = dir
                  /\ seedFiles' = get_files(dir)
       ELSE /\ pc' = "sleep"
            /\ UNCHANGED <<calls, drivers>>
            /\ printed' = <<"retrying">>
            /\ UNCHANGED seed
    /\ UNCHANGED <<attempt, lastPoll, pollOk, yielded, bodyOutcome, deleteResult, outcome,
                   cancels, cancelledLive, th, execs, usedAfterDelete,
                   runLoop, loop, backendLoop, bridge>>

\* mutant: a failed batch upload is retried like a failed poll
UploadReturns_RetriesOnFailure(r) ==
    /\ pc = "uploading"
    /\ IF r = "ok"
       THEN HandOff(<<>>)
       ELSE /\ pc' = "sleep"
            /\ yielded' = yielded
            /\ backendLoop' = backendLoop
            /\ printed' = <<"retrying">>
    /\ UNCHANGED <<attempt, lastPoll, pollOk, calls, drivers, bodyOutcome, deleteResult, outcome,
                   cancels, cancelledLive, th, execs, usedAfterDelete,
                   runLoop, loop, bridge, seed>>

\* the batch upload returns or raises (printed), then break and the hand-off
UploadReturns(r) ==
    /\ pc = "uploading"
    /\ HandOff(IF r = "ok" THEN <<>> ELSE <<"seedfailed">>)
    /\ UNCHANGED <<attempt, lastPoll, pollOk, calls, drivers, bodyOutcome, deleteResult, outcome,
                   cancels, cancelledLive, th, execs, usedAfterDelete,
                   runLoop, loop, bridge, seed>>

\* await asyncio.sleep(2) is over
SleepReturns ==
    /\ pc = "sleep"
    /\ pc' = "loop"
    /\ printed' = <<>>
    /\ UNCHANGED <<attempt, lastPoll, pollOk, calls, drivers, yielded, bodyOutcome, deleteResult,
                   outcome, cancels, cancelledLive, th, execs, usedAfterDelete,
                   runLoop, loop, backendLoop, bridge, seed>>

\* mutant: after the clean-up delete the polling starts over
TimeoutDeleteReturns_Reprovisions(r) ==
    /\ pc = "tdelete"
    /\ deleteResult' = r
    /\ pc' = "sleep"
    /\ printed' = <<>>
    /\ UNCHANGED <<attempt, lastPoll, pollOk, calls, drivers, yielded, bodyOutcome, outcome,
                   cancels, cancelledLive, th, execs, usedAfterDelete,
                   runLoop, loop, backendLoop, bridge, seed>>

\* mutant: the else-branch does not raise and falls through to the hand-off
TimeoutDeleteReturns_FallThrough(r) ==
    /\ pc = "tdelete"
    /\ deleteResult' = r
    /\ pc' = "ready"
    /\ yielded' = TRUE
    /\ backendLoop' = runLoop
    /\ printed' = <<"ready">>
    /\ UNCHANGED <<attempt, lastPoll, pollOk, calls, drivers, bodyOutcome, outcome,
                   cancels, cancelledLive, th, execs, usedAfterDelete,
                   runLoop, loop, bridge, seed>>

\* mutant: a failure of the clean-up delete propagates instead of the RuntimeError
TimeoutDeleteReturns_Propagates(r) ==
    /\ pc = "tdelete"
    /\ deleteResult' = r
    /\ outcome' = IF r = "ok" THEN "timeout" ELSE "cleanuperr"
    /\ pc' = "done"
    /\ printed' = <<>>
    /\ UNCHANGED <<attempt, lastPoll, pollOk, calls, drivers, yielded, bodyOutcome,
                   cancels, cancelledLive, th, execs, usedAfterDelete,
                   runLoop, loop, backendLoop, bridge, seed>>

\* else-branch: try: await sandbox.delete() finally: raise RuntimeError(...)
TimeoutDeleteReturns(r) ==
    /\ pc = "tdelete"
    /\ deleteResult' = r
    /\ outcome' = "timeout"
    /\ pc' = "done"
    /\ printed' = <<>>
    /\ UNCHANGED <<attempt, lastPoll, pollOk, calls, drivers, yielded, bodyOutcome,
                   cancels, cancelledLive, th, execs, usedAfterDelete,
                   runLoop, loop, backendLoop, bridge, seed>>

\* mutant: a caller waiting in future.result() blocks the whole loop
LoopFree_BlockedByAnyCaller == loop = "running" /\ \A c \in Callers : th[c] = "idle"

\* the owning loop can run its callbacks and coroutines: it is running, and the
\* thread that runs it is not blocked in future.result() of an execute call
LoopFree == loop = "running" /\ th[LoopThread] = "idle"

\* the caller's body leaves the scope: the finally block prints and issues delete
ScopeExit(b) ==
    /\ bodyOutcome' = b
    /\ Issue("delete", runLoop)
    /\ pc' = "xdelete"
    /\ printed' = <<"deleting">>

\* mutant: the delete is in an else-clause, skipped when the body raises
BodyExit_NoFinally(b) ==
    /\ pc = "ready"
    /\ LoopFree
    /\ IF b = "raise"
       THEN /\ bodyOutcome' = b
            /\ pc' = "done"
            /\ outcome' = "bodyerr"
            /\ printed' = <<>>
            /\ UNCHANGED <<calls, drivers>>
       ELSE /\ ScopeExit(b)
            /\ outcome' = outcome
    /\ UNCHANGED <<attempt, lastPoll, pollOk, yielded, deleteResult,
                   cancels, cancelledLive, th, execs, usedAfterDelete,
                   runLoop, loop, backendLoop, bridge, seed>>

BodyExit(b) ==
    /\ pc = "ready"
    /\ LoopFree
    /\ ScopeExit(b)
    /\ UNCHANGED <<attempt, lastPoll, pollOk, yielded, deleteResult, outcome,
                   cancels, cancelledLive, th, execs, usedAfterDelete,
                   runLoop, loop, backendLoop, bridge, seed>>

\* what the user of the scope observes when the generator is done after the body
Surface(b) == CASE b = "return" -> "ok"
                [] b = "raise" -> "bodyerr"
                [] b = "cancel" -> "cancelled"
                [] OTHER -> "none"

\* mutant: a failure of the delete at scope exit is raised
ExitDeleteReturns_Raises(r) ==
    /\ pc = "xdelete"
    /\ LoopFree
    /\ deleteResult' = r
    /\ printed' = IF r = "ok" THEN <<"terminated">> ELSE <<>>
    /\ outcome' = IF r = "ok" THEN Surface(bodyOutcome) ELSE "cleanuperr"
    /\ pc' = "done"
    /\ UNCHANGED <<attempt, lastPoll, pollOk, calls, drivers, yielded, bodyOutcome,
                   cancels, cancelledLive, th, execs, usedAfterDelete,
                   runLoop, loop, backendLoop, bridge, seed>>

\* finally: try: await sandbox.delete() except Exception as e: print(...)
ExitDeleteReturns(r) ==
    /\ pc = "xdelete"
    /\ LoopFree
    /\ deleteResult' = r
    /\ printed' = IF r = "ok" THEN <<"terminated">> ELSE <<"cleanupfailed">>
    /\ outcome' = Surface(bodyOutcome)
    /\ pc' = "done"
    /\ UNCHANGED <<attempt, lastPoll, pollOk, calls, drivers, yielded, bodyOutcome,
                   cancels, cancelledLive, th, execs, usedAfterDelete,
                   runLoop, loop, backendLoop, bridge, seed>>

\* the task is cancelled: CancelledError is raised at the await the coroutine is
\* suspended in. It is not an Exception, so no except clause of the module catches it.
Cancel ==
    /\ pc \in Suspended
    /\ LoopFree
    /\ cancels < MaxCancels
    /\ cancels' = cancels + 1
    /\ cancelledLive' = (cancelledLive \/ SandboxExists)
    /\ CASE pc = "ready" ->
              /\ ScopeExit("cancel")
              /\ UNCHANGED <<deleteResult, outcome>>
         [] pc = "tdelete" ->
              /\ pc' = "done"
              /\ deleteResult' = "cancelled"
              /\ outcome' = "timeout"
              /\ printed' = <<>>
              /\ UNCHANGED <<bodyOutcome, calls, drivers>>
         [] pc = "xdelete" ->
              /\ pc' = "done"
              /\ deleteResult' = "cancelled"
              /\ outcome' = "cancelled"
              /\ printed' = <<>>
              /\ UNCHANGED <<bodyOutcome, calls, drivers>>
         [] OTHER ->
              /\ pc' = "done"
              /\ outcome' = "cancelled"
              /\ printed' = <<>>
              /\ UNCHANGED <<bodyOutcome, calls, drivers, deleteResult>>
    /\ UNCHANGED <<attempt, lastPoll, pollOk, yielded, th, execs, usedAfterDelete,
                   runLoop, loop, backendLoop, bridge, seed>>

\* ExecuteResponse(output=result.result, exit_code=result.exit_code, truncated=False)
ExecuteResponse(result) ==
    [kind |-> "returned", output |-> result.result, exit_code |-> result.exit_code,
     truncated |-> FALSE, error |-> "none"]

\* mutant: a non-zero exit code is raised as an error
FutureResult_RaisesOnNonZero(r) ==
    IF r.kind = "result" /\ r.exit_code = 0
    THEN ExecuteResponse(r)
    ELSE [kind |-> "raised", output |-> "", exit_code |-> 0, truncated |-> FALSE,
          error |-> IF r.kind = "result" THEN "CalledProcessError" ELSE r.error]

\* future.result(): the value of the coroutine, or the exception it ended with, unchanged
FutureResult(r) ==
    IF r.kind = "result"
    THEN ExecuteResponse(r)
    ELSE [kind |-> "raised", output |-> "", exit_code |-> 0, truncated |-> FALSE,
          error |-> r.error]

\* what execute raises when the loop no longer accepts callbacks
LoopClosedError ==
    [kind |-> "raised", output |-> "", exit_code |-> 0, truncated |-> FALSE,
     error |-> "RuntimeError"]

\* DaytonaBackend.execute: run_coroutine_threadsafe(execute(), self._loop), then the
\* caller waits in future.result(). call_soon_threadsafe raises RuntimeError on a
\* closed loop; on a stopped loop the callback is queued and never run.
ExecuteSubmit(t, c) ==
    /\ yielded
    /\ th[t] = "idle"
    /\ execs[t] < MaxExec
    /\ execs' = [execs EXCEPT ![t] = @ + 1]
    /\ cmd' = [cmd EXCEPT ![t] = c]
    /\ reply' = [reply EXCEPT ![t] = NoReply]
    /\ IF loop = "closed"
       THEN /\ th' = th
            /\ ret' = [ret EXCEPT ![t] = LoopClosedError]
       ELSE /\ th' = [th EXCEPT ![t] = "submitted"]
            /\ ret' = [ret EXCEPT ![t] = NoRet]
    /\ UNCHANGED <<session, calls, drivers, usedAfterDelete, execLoop, xfer>>

\* mutant: every call runs its coroutine on a loop of its own
ExecuteIssue_FreshLoop(t) ==
    /\ th[t] = "submitted"
    /\ LoopFree
    /\ th' = [th EXCEPT ![t] = "inflight"]
    /\ execLoop' = [execLoop EXCEPT ![t] = "fresh"]
    /\ Issue("exec", "fresh")
    /\ usedAfterDelete' = (usedAfterDelete \/ calls["delete"] > 0)
    /\ UNCHANGED <<session, execs, cmd, reply, ret, xfer>>

\* mutant: the scheduled coroutine is run although its loop is stopped or blocked
ExecuteIssue_IgnoresLoopState(t) ==
    /\ th[t] = "submitted"
    /\ th' = [th EXCEPT ![t] = "inflight"]
    /\ execLoop' = [execLoop EXCEPT ![t] = backendLoop]
    /\ Issue("exec", backendLoop)
    /\ usedAfterDelete' = (usedAfterDelete \/ calls["delete"] > 0)
    /\ UNCHANGED <<session, execs, cmd, reply, ret, xfer>>

\* the loop self._loop runs the coroutine: await self._sandbox.process.exec(command)
ExecuteIssue(t) ==
    /\ th[t] = "submitted"
    /\ LoopFree
    /\ th' = [th EXCEPT ![t] = "inflight"]
    /\ execLoop' = [execLoop EXCEPT ![t] = backendLoop]
    /\ Issue("exec", backendLoop)
    /\ usedAfterDelete' = (usedAfterDelete \/ calls["delete"] > 0)
    /\ UNCHANGED <<session, execs, cmd, reply, ret, xfer>>

\* the provider answers or the call raises; future.result() returns or raises
\* and execute builds its ExecuteResponse
ExecuteReturns(t, r) ==
    /\ th[t] = "inflight"
    /\ LoopFree
    /\ th' = [th EXCEPT ![t] = "idle"]
    /\ reply' = [reply EXCEPT ![t] = r]
    /\ ret' = [ret EXCEPT ![t] = FutureResult(r)]
    /\ UNCHANGED <<session, calls, drivers, execs, usedAfterDelete, cmd, execLoop, xfer>>

\* mutant: the fs methods are synchronous and talk to the provider in the calling thread
FsCallNoAwait_Synchronous(requests) ==
    [kind |-> "list", requests |-> requests,
     items |-> [i \in DOMAIN requests |-> [source |-> requests[i].source, result |-> "x"]]]

\* self._sandbox.fs.upload_files(...) / download_files(...) called without await:
\* the methods of an AsyncSandbox are coroutine functions (upload_skills awaits
\* the same method), so the call only builds a coroutine object; it is never
\* awaited and no request reaches the provider
FsCallNoAwait(requests) == [kind |-> "coroutine", requests |-> requests, items |-> <<>>]

\* download_files: the comprehension iterates over what the fs call gave back;
\* a coroutine object is not iterable and the iteration raises TypeError
download_files(paths) ==
    LET download_requests == [i \in DOMAIN paths |-> [source |-> paths[i]]]
        daytona_responses == FsCallNoAwait(download_requests)
    IN  IF daytona_responses.kind = "list"
        THEN [op |-> "download", arg |-> paths, kind |-> "returned",
              value |-> [i \in DOMAIN daytona_responses.items |->
                            [path |-> daytona_responses.items[i].source,
                             content |-> daytona_responses.items[i].result,
                             error |-> "none"]],
              error |-> "none", sent |-> download_requests]
        ELSE [op |-> "download", arg |-> paths, kind |-> "raised", value |-> <<>>,
              error |-> "TypeError", sent |-> <<>>]

\* upload_files: the requests are built, the fs call is made without await and its
\* value dropped, and one response with error=None is returned per input file
upload_files(files) ==
    LET upload_requests == [i \in DOMAIN files |->
                               [source |-> files[i].content, destination |-> files[i].path]]
        dropped == FsCallNoAwait(upload_requests)
    IN  [op |-> "upload", arg |-> files, kind |-> "returned",
         value |-> [i \in DOMAIN files |-> [path |-> files[i].path, error |-> "none"]],
         error |-> "none",
         sent |-> IF dropped.kind = "coroutine" THEN <<>> ELSE upload_requests]

\* a thread that holds the backend calls download_files(paths); the fs call is made
\* in that thread, which drives the connection unless the call only builds a coroutine
DownloadFiles(t, paths) ==
    /\ yielded
    /\ xfer' = download_files(paths)
    /\ drivers' = IF FsCallNoAwait(<<>>).kind = "coroutine" THEN drivers ELSE drivers \cup {t}
    /\ UNCHANGED <<session, calls, th, execs, usedAfterDelete, cmd, execLoop, reply, ret>>

\* a thread that holds the backend calls upload_files(files)
UploadFiles(t, files) ==
    /\ yielded
    /\ xfer' = upload_files(files)
    /\ drivers' = IF FsCallNoAwait(<<>>).kind = "coroutine" THEN drivers ELSE drivers \cup {t}
    /\ UNCHANGED <<session, calls, th, execs, usedAfterDelete, cmd, execLoop, reply, ret>>

\* the owning loop stops running: loop.stop(), or the end of run_until_complete
LoopStop ==
    /\ loop = "running"
    /\ loop' = "stopped"
    /\ UNCHANGED <<pc, attempt, lastPoll, pollOk, calls, drivers, yielded, bodyOutcome,
                   deleteResult, outcome, cancels, cancelledLive, printed, th, execs,
                   usedAfterDelete, runLoop, backendLoop, bridge, seed>>

\* the stopped loop is closed, as asyncio.run does at its end
LoopClose ==
    /\ loop = "stopped"
    /\ loop' = "closed"
    /\ UNCHANGED <<pc, attempt, lastPoll, pollOk, calls, drivers, yielded, bodyOutcome,
                   deleteResult, outcome, cancels, cancelledLive, printed, th, execs,
                   usedAfterDelete, runLoop, backendLoop, bridge, seed>>

\* the state of the session's state machine that a position of the coroutine is in
SessionState(p) ==
    CASE p \in {"start", "client"} -> "Uninitialized"
      [] p \in {"create", "loop", "polling", "collect", "uploading", "sleep"} -> "Provisioning"
      [] p \in {"ready", "xdelete"} -> "Ready"
      [] p = "tdelete" -> "Failed"
      [] OTHER -> "Terminated"

Next ==
    \/ Start
    \/ \E r \in Results : ClientReturns(r)
    \/ \E r \in Results : CreateReturns(r)
    \/ LoopNext
    \/ \E k \in PollKinds : PollReturns(k)
    \/ \E r \in Results : CollectReturns(r)
    \/ \E r \in Results : UploadReturns(r)
    \/ SleepReturns
    \/ \E r \in Results : TimeoutDeleteReturns(r)
    \/ \E b \in {"return", "raise"} : BodyExit(b)
    \/ \E r \in Results : ExitDeleteReturns(r)
    \/ Cancel
    \/ \E t \in SessionThreads, c \in Commands : ExecuteSubmit(t, c)
    \/ \E t \in SessionThreads : ExecuteIssue(t)
    \/ \E t \in SessionThreads, r \in Replies : ExecuteReturns(t, r)

Spec == Init /\ [][Next]_vars

\* The execute bridge with concurrent callers: the session as it stands at the
\* yield of the backend after a first poll that succeeded, then every thread
\* calling execute while the scope is held, left or cancelled.
BridgeInit ==
    /\ pc = "ready"
    /\ attempt = 1
    /\ lastPoll = "exit0"
    /\ pollOk = TRUE
    /\ calls = [k \in CallKinds |-> IF k \in {"create", "poll", "seed"} THEN 1 ELSE 0]
    /\ yielded = TRUE
    /\ bodyOutcome = "none"
    /\ deleteResult = "none"
    /\ outcome = "none"
    /\ cancels = 0
    /\ cancelledLive = FALSE
    /\ printed \in {<<"ready">>, <<"seedfailed", "ready">>}
    /\ th = [t \in Callers |-> "idle"]
    /\ execs = [t \in Callers |-> 0]
    /\ usedAfterDelete = FALSE
    /\ runLoop \in Loops
    /\ backendLoop = runLoop
    /\ cmd = [t \in Callers |-> "none"]
    /\ execLoop = [t \in Callers |-> "none"]
    /\ reply = [t \in Callers |-> NoReply]
    /\ ret = [t \in Callers |-> NoRet]
    /\ xfer = NoXfer
    /\ skillsDir \in SUBSET SkillFiles
    /\ seedFiles = get_files(skillsDir)
    /\ drivers = {runLoop}
    /\ loop = "running"

BridgeNext ==
    \/ \E b \in {"return", "raise"} : BodyExit(b)
    \/ \E r \in Results : ExitDeleteReturns(r)
    \/ Cancel
    \/ \E t \in Threads, c \in Commands : ExecuteSubmit(t, c)
    \/ \E t \in Threads : ExecuteIssue(t)
    \/ \E t \in Threads, r \in Replies : ExecuteReturns(t, r)

BridgeSpec == BridgeInit /\ [][BridgeNext]_vars

\* The batch file transporter: the session as it stands at the yield of the
\* backend, then upload_files and download_files on every batch, before and
\* after the scope is left.
FilesNext ==
    \/ \E b \in {"return", "raise"} : BodyExit(b)
    \/ \E r \in Results : ExitDeleteReturns(r)
    \/ \E t \in SessionThreads, paths \in Batches(Paths) : DownloadFiles(t, paths)
    \/ \E t \in SessionThreads, files \in Batches([path : Paths, content : Contents]) :
          UploadFiles(t, files)

FilesSpec == BridgeInit /\ [][FilesNext]_vars

\* Who drives the connection: the session as it stands at the yield of the
\* backend, then a thread calling execute, upload_files and download_files on
\* single-file batches while the scope is held, left or cancelled.
ConnectionNext ==
    \/ \E b \in {"return", "raise"} : BodyExit(b)
    \/ \E r \in Results : ExitDeleteReturns(r)
    \/ Cancel
    \/ \E t \in SessionThreads, c \in Commands : ExecuteSubmit(t, c)
    \/ \E t \in SessionThreads : ExecuteIssue(t)
    \/ \E t \in SessionThreads, r \in Replies : ExecuteReturns(t, r)
    \/ \E t \in SessionThreads, path \in Paths : DownloadFiles(t, <<path>>)
    \/ \E t \in SessionThreads, path \in Paths, content \in Contents :
          UploadFiles(t, <<[path |-> path, content |-> content]>>)

ConnectionSpec == BridgeInit /\ [][ConnectionNext]_vars

\* The scheduler that owns the connection and its callers: the session as it
\* stands at the yield of the backend, then execute called from other threads and
\* from the loop's own thread, while the loop runs, stops and is closed.
SchedulerNext ==
    \/ \E b \in {"return", "raise"} : BodyExit(b)
    \/ \E r \in Results : ExitDeleteReturns(r)
    \/ Cancel
    \/ \E t \in Callers, c \in Commands : ExecuteSubmit(t, c)
    \/ \E t \in Callers : ExecuteIssue(t)
    \/ \E t \in Callers, r \in Replies : ExecuteReturns(t, r)
    \/ LoopStop
    \/ LoopClose

\* the yield of the backend after a seeding that uploaded every skill file
SchedulerInit ==
    /\ BridgeInit
    /\ printed = <<"ready">>
    /\ skillsDir = SkillFiles

SchedulerSpec == SchedulerInit /\ [][SchedulerNext]_vars

\* The loop runs every callback that stays ready, and the provider answers every
\* exec whose answer the loop stays able to take.
FairSchedulerSpec ==
    /\ SchedulerSpec
    /\ \A t \in Threads : WF_vars(ExecuteIssue(t))
    /\ \A t \in Threads : WF_vars(\E r \in Replies : ExecuteReturns(t, r))

TypeOK ==
    /\ pc \in Suspended \cup {"start", "loop", "done"}
    /\ attempt \in 0..MaxAttempts
    /\ lastPoll \in PollKinds \cup {"none"}
    /\ pollOk \in BOOLEAN
    /\ yielded \in BOOLEAN
    /\ cancels \in 0..MaxCancels
    /\ loop \in {"running", "stopped", "closed"}
    /\ drivers \subseteq Loops \cup Callers \cup {"fresh"}

----------------------------------------------------------------------------
\* C1: once the backend has been yielded, every exit of the caller's scope
\* (return, exception or cancellation of the body) has issued exactly one
\* sandbox.delete() call.
C1_ExactlyOneDeleteAfterScopeExit ==
    (yielded /\ bodyOutcome # "none") => calls["delete"] = 1

C1_Witness ==
    pc = "done" /\ yielded /\ bodyOutcome = "raise" /\ calls["delete"] = 1

\* C2: on every path the number of delete calls issued for the handle is at most one.
C2_AtMostOneDelete == calls["delete"] <= 1

C2_Witness ==
    pc = "done" /\ outcome = "timeout" /\ cancels > 0 /\ calls["delete"] = 1

\* C3 (as stated): a session cancelled at any point after the sandbox was
\* created has issued a delete call by the time it is over.
C3_CancelNeverSkipsCleanup ==
    (pc = "done" /\ cancelledLive) => calls["delete"] >= 1

\* C4: when no poll ever succeeds the manager makes exactly 90 poll attempts,
\* then exactly one delete attempt, then raises the timeout error, and the
\* backend is never yielded.
C4_TimeoutAfterExactlyNAttempts ==
    /\ pc = "tdelete" => (calls["poll"] = MaxAttempts /\ calls["delete"] = 1)
    /\ outcome = "timeout" =>
          /\ attempt = MaxAttempts
          /\ calls["poll"] = MaxAttempts
          /\ calls["delete"] = 1
          /\ ~yielded
    /\ (pc = "done" /\ ~pollOk /\ outcome \notin {"clienterr", "createerr", "cancelled"})
          => outcome = "timeout"

C4_Witness ==
    outcome = "timeout" /\ ~pollOk /\ calls["poll"] = MaxAttempts /\ deleteResult = "ok"

\* C5: on the timeout path the surfaced error is the timeout error whether the
\* clean-up delete returns, raises or is cancelled.
C5_TimeoutErrorSurvivesDeleteFailure ==
    (pc = "done" /\ ~yielded /\ calls["delete"] = 1) =>
        (deleteResult \in {"ok", "raise", "cancelled"} /\ outcome = "timeout")

C5_Witness ==
    pc = "done" /\ ~yielded /\ deleteResult = "raise" /\ outcome = "timeout"

\* C6: a delete that fails at scope exit from Ready is printed and not raised:
\* the scope's outcome is the body's own outcome whether or not delete fails.
C6_CleanupFailureNeverRaised ==
    (pc = "done" /\ yielded /\ deleteResult \in Results) =>
        /\ bodyOutcome = "return" => outcome = "ok"
        /\ bodyOutcome = "raise" => outcome = "bodyerr"
        /\ bodyOutcome = "cancel" => outcome = "cancelled"
        /\ deleteResult = "raise" => printed = <<"cleanupfailed">>

C6_Witness ==
    pc = "done" /\ yielded /\ deleteResult = "raise" /\ bodyOutcome = "raise"
       /\ outcome = "bodyerr"

\* C7 (as stated): a failed create call is followed by one deletion call
\* before the creation error is surfaced.
C7_CreateFailureAttemptsDelete ==
    outcome = "createerr" => calls["delete"] = 1

\* C7 (amended): a failed create call surfaces the creation error at once: no
\* delete call and no poll is issued and the backend is never yielded.
C7_CreateFailureSurfacedWithoutDelete ==
    outcome = "createerr" =>
        (pc = "done" /\ calls["delete"] = 0 /\ calls["poll"] = 0 /\ ~yielded)

C7_Witness ==
    outcome = "createerr" /\ calls["create"] = 1

\* C8 (as stated): no provider call is issued on the handle after its delete
\* call has been issued.
C8_NoUseAfterDelete == ~usedAfterDelete

\* C9: the backend is yielded only after a poll attempt of this session, within
\* the budget, completed with exit code 0.
C9_ReadyOnlyAfterPollSuccess ==
    yielded => (pollOk /\ lastPoll = "exit0" /\ calls["poll"] \in 1..MaxAttempts)

C9_Witness ==
    pc = "ready" /\ attempt = 3 /\ lastPoll = "exit0"

\* C10 (as stated): after a poll succeeded with exit code 0 no seeding failure
\* leads to another poll attempt or to the provisioning timeout.
C10_SeedingFailureNeverRetries ==
    pollOk => (pc \notin {"sleep", "loop", "polling", "tdelete"} /\ outcome # "timeout")

\* C11: the seed upload is issued only after a poll succeeded, it is over
\* before the backend is yielded, no poll follows it, and it is issued at most
\* once per session.
C11_SeedingBetweenReadinessAndHandOff ==
    /\ calls["seed"] <= 1
    /\ calls["seed"] = 1 =>
          /\ pollOk
          /\ lastPoll = "exit0"
          /\ pc \in {"uploading", "ready", "xdelete", "done"}
    /\ yielded => (calls["seed"] = 1 /\ pc # "uploading")

C11_Witness ==
    pc = "ready" /\ calls["seed"] = 1 /\ printed = <<"seedfailed", "ready">>

\* C12: for every provider reply (output o, exit code c) execute returns
\* output = o, exit_code = c, truncated = false; a non-zero exit code is a
\* normal result, never an error.
C12_ExecuteCarriesReply ==
    \A t \in Threads :
        /\ reply[t].kind = "result" =>
              ret[t] = [kind |-> "returned", output |-> reply[t].result,
                        exit_code |-> reply[t].exit_code, truncated |-> FALSE,
                        error |-> "none"]
        /\ ret[t].kind = "returned" => (reply[t].kind = "result" /\ ~ret[t].truncated)

C12_Witness ==
    \E t \in Threads :
        /\ reply[t].kind = "result" /\ reply[t].exit_code = 1 /\ reply[t].result = "hi\n"
        /\ ret[t].kind = "returned" /\ ret[t].exit_code = 1 /\ ret[t].output = "hi\n"

\* C13 (as stated): a transport failure of the provider's exec call reaches the
\* caller of execute as the distinct error ExecutionTransportError, with no result.
C13_TransportFailureIsExecutionTransportError ==
    \A t \in Threads :
        reply[t].kind = "raise" =>
            (ret[t].kind = "raised" /\ ret[t].error = "ExecutionTransportError")

\* C14: every provider exec issued by execute runs on the loop that runs
\* create_daytona_sandbox, whichever thread calls and however many calls overlap.
C14_ExecOnOwningLoop ==
    /\ yielded => backendLoop = runLoop
    /\ \A t \in Threads :
          /\ execLoop[t] \in {"none", runLoop}
          /\ th[t] = "inflight" => execLoop[t] = runLoop

C14_Witness ==
    /\ runLoop = "L2"
    /\ \A t \in Threads : th[t] = "inflight" /\ execLoop[t] = "L2"

\* C15 (as stated): download_files(paths) returns a sequence of the length of
\* paths whose i-th entry has path = paths[i].
C15_DownloadMatchesPaths ==
    xfer.op = "download" =>
        /\ xfer.kind = "returned"
        /\ Len(xfer.value) = Len(xfer.arg)
        /\ \A i \in DOMAIN xfer.arg : xfer.value[i].path = xfer.arg[i]

\* C16 (as stated): upload_files on a batch of k files returns k results in
\* input order, the malformed ones carry an error, every other one carries no
\* error and its file was uploaded.
C16_UploadIsolatesMalformedItem ==
    xfer.op = "upload" =>
        /\ xfer.kind = "returned"
        /\ Len(xfer.value) = Len(xfer.arg)
        /\ \A i \in DOMAIN xfer.arg :
              /\ xfer.value[i].path = xfer.arg[i].path
              /\ Malformed(xfer.arg[i].path) => xfer.value[i].error # "none"
              /\ ~Malformed(xfer.arg[i].path) =>
                    /\ xfer.value[i].error = "none"
                    /\ \E j \in DOMAIN xfer.sent :
                          xfer.sent[j] = [source |-> xfer.arg[i].content,
                                          destination |-> xfer.arg[i].path]

\* C17 (as stated): the seed upload carries exactly the support files whose
\* size is within max_skill_file_size.
C17_OversizedSeedFileSkipped ==
    calls["seed"] = 1 =>
        seedFiles = get_files({f \in skillsDir : f.size <= MaxSkillFileSize})

\* C18: a session issues exactly one create call: at most one ever, and one
\* as soon as the client exists, whatever the polls do.
C18_ExactlyOneCreate ==
    /\ calls["create"] <= 1
    /\ (pc = "create" \/ SandboxExists \/ calls["poll"] > 0 \/ outcome = "createerr")
          => calls["create"] = 1

C18_Witness ==
    pc = "ready" /\ attempt = MaxAttempts /\ calls["create"] = 1

\* C19: a poll attempt that ends in a timeout, a connection error or a non-zero
\* exit code only leads to the sleep; after the sleep, while attempts remain,
\* the next attempt is issued; a poll is issued only when none is in flight.
C19_TransientPollFailureRetried ==
    [][ /\ (pc = "polling" /\ pc' # "polling" /\ cancels' = cancels /\ lastPoll' # "exit0")
             => (pc' = "sleep" /\ outcome' = "none" /\ attempt' = attempt)
        /\ (pc = "sleep" /\ pc' # "sleep" /\ cancels' = cancels) => pc' = "loop"
        /\ (pc = "loop" /\ pc' # "loop" /\ attempt < MaxAttempts)
             => (pc' = "polling" /\ attempt' = attempt + 1
                 /\ calls'["poll"] = calls["poll"] + 1)
        /\ (calls'["poll"] # calls["poll"]) => (pc = "loop" /\ pc' = "polling")
      ]_vars

C19_Witness ==
    pc = "polling" /\ attempt = 2 /\ lastPoll = "connerr" /\ printed = <<>>

\* C20 (as stated): every failed poll attempt, whether it timed out, lost the
\* connection or completed with a non-zero exit code, has printed a log line.
C20_EveryFailedPollLogged ==
    (pc = "sleep" /\ lastPoll \in {"nonzero", "timeout", "connerr"}) => printed # <<>>

\* C22: delete is never issued while an execute call is in flight: a step that
\* issues sandbox.delete() is taken only when no thread has a provider exec
\* outstanding.
C22_NoDeleteWhileExecInFlight ==
    [][ calls'["delete"] > calls["delete"] => \A t \in Threads : th[t] # "inflight" ]_vars

\* C23: whenever upload_files has returned an entry without error for a
\* (path, payload), a provider batch-upload request carrying that entry has been
\* executed, and the call leaves the session's lifecycle state as it was.
C23_ReportedUploadWasSent ==
    /\ xfer.op = "upload" /\ xfer.kind = "returned" =>
         \A i \in DOMAIN xfer.value :
            xfer.value[i].error = "none" =>
               \E j \in DOMAIN xfer.sent :
                  xfer.sent[j] = [source |-> xfer.arg[i].content,
                                  destination |-> xfer.arg[i].path]
    /\ xfer.op = "upload" => pc \in {"ready", "xdelete", "done"}

\* C24 (as stated): the session state only moves along Uninitialized ->
\* Provisioning -> Ready -> Terminated and Provisioning -> Failed -> Terminated.
C24_OnlySpecifiedEdges ==
    [][ SessionState(pc') # SessionState(pc) =>
          <<SessionState(pc), SessionState(pc')>> \in
             {<<"Uninitialized", "Provisioning">>, <<"Provisioning", "Ready">>,
              <<"Ready", "Terminated">>, <<"Provisioning", "Failed">>,
              <<"Failed", "Terminated">>} ]_vars

\* C24 (amended): besides those edges the session also ends directly from
\* Uninitialized and from Provisioning; Ready is never entered after Failed,
\* Provisioning is never re-entered and Terminated is absorbing.
C24_EdgesWithDirectTermination ==
    [][ SessionState(pc') # SessionState(pc) =>
          <<SessionState(pc), SessionState(pc')>> \in
             {<<"Uninitialized", "Provisioning">>, <<"Provisioning", "Ready">>,
              <<"Ready", "Terminated">>, <<"Provisioning", "Failed">>,
              <<"Failed", "Terminated">>,
              <<"Uninitialized", "Terminated">>, <<"Provisioning", "Terminated">>} ]_vars

C24_Witness ==
    pc = "done" /\ outcome = "cancelled" /\ calls["poll"] = 2 /\ calls["delete"] = 0

\* C27 (as stated): at most 90 polls are issued, a poll that succeeded leads to
\* Ready with no delete during provisioning, and the timeout error is raised
\* only when all 90 attempts failed.
C27_TimeoutOnlyWhenAllPollsFailed ==
    /\ calls["poll"] <= MaxAttempts
    /\ outcome = "timeout" => ~pollOk
    /\ (pollOk /\ ~yielded) => calls["delete"] = 0

C25_ExecuteFromOtherThreadCompletes ==
    /\ \A t \in Threads :
          (th[t] = "submitted") ~>
             \/ th[t] = "idle" /\ ret[t].kind \in {"returned", "raised"}
             \/ loop # "running"
             \/ th[LoopThread] # "idle"
    /\ [](\A t \in Threads :
            (th[t] # "idle" /\ loop = "running" /\ th[LoopThread] = "idle") =>
               /\ \A u \in Threads \ {t} : th[u] = "submitted" => ENABLED ExecuteIssue(u)
               /\ pc = "ready" => ENABLED BodyExit("return"))

C25_Witness ==
    /\ ret["t1"].kind = "returned"
    /\ th["t2"] = "inflight"
    /\ loop = "running"
    /\ th[LoopThread] = "idle"

\* C26: an execute call made from the thread that runs the owning loop never
\* returns and the loop makes no further progress; likewise a call waiting on a
\* loop that has stopped never returns: such a caller stays where it is, no
\* provider call is issued, the session does not move, and the loop never
\* becomes free again.
C26_ExecuteOnLoopThreadOrStoppedLoopBlocks ==
    [][ (loop # "running" \/ th[LoopThread] # "idle") =>
          /\ \A c \in Callers : th[c] # "idle" => th'[c] = th[c] /\ ret'[c] = NoRet
          /\ \A c \in Callers : ret'[c].kind = "returned" => ret[c] = ret'[c]
          /\ UNCHANGED <<pc, calls>>
          /\ loop' # "running" \/ th'[LoopThread] # "idle" ]_vars

C26_Witness ==
    /\ th[LoopThread] = "submitted"
    /\ th["t1"] = "submitted"
    /\ loop = "stopped"

====
